---- MODULE Spec2Model ----
(***************************************************************************)
(* Model of three leaf utilities of the nuclide repository:                *)
(*                                                                         *)
(*   - getDefinitionPreview                                                *)
(*       pkg/nuclide-definition-preview-rpc/lib/DefinitionPreviewService.js *)
(*   - getDefinitionQueryResultForFragmentSpread,                          *)
(*     getDefinitionQueryResultForDefinitionNode,                          *)
(*     getDefinitionForFragmentDefinition                                  *)
(*       pkg/nuclide-graphql-language-service/lib/interfaces/getDefinition.js *)
(*   - installErrorReporter                                                *)
(*       lib/installErrorReporter.js                                       *)
(*                                                                         *)
(* Strings are sequences of one-character strings; JavaScript's 0-based    *)
(* indices are kept (lines[i] of the source is lines[i + 1] here).         *)
(***************************************************************************)
EXTENDS Integers, Sequences, FiniteSets, TLC

VARIABLES
    pc,                 \* getDefinitionPreview: "idle", "loop", "done"
    lines,              \* contents.split('\n')
    start,              \* definition.position.row
    initialIndentLevel, \* getIndentLevel(lines[start])
    i,                  \* loop index
    openParenCount,     \* running count of '('
    closedParenCount,   \* running count of ')'
    buffer,             \* lines pushed so far
    result,             \* the lines of the returned snippet, NoResult before
    call,               \* getDefinition.js: the function called, its arguments
    outcome,            \* getDefinition.js: what the call returned or threw
    stderr,             \* what the call wrote to process.stderr
    disposable,         \* installErrorReporter.js: the module's variable;
                        \* 0 is null, n the n-th disposable returned
    created,            \* the number of disposables returned so far
    disposed,           \* the returned disposables whose dispose() has run
    windowListener,     \* onUnhandledRejection listens to 'unhandledrejection'
    atomHandlers,       \* the disposables whose onWillThrowError
                        \* subscription is live
    last,               \* the last call of installErrorReporter or dispose
    logged              \* the calls of getLogger().error that went through

previewVars ==
    <<pc, lines, start, initialIndentLevel, i, openParenCount,
      closedParenCount, buffer, result>>

definitionVars == <<call, outcome, stderr>>

reporterVars ==
    <<disposable, created, disposed, windowListener, atomHandlers, last,
      logged>>

vars == <<previewVars, definitionVars, reporterVars>>

NoResult == "NoResult"

(***************************************************************************)
(* Bounds of the model.                                                    *)
(***************************************************************************)
MaxFileLen == 11

MaxStart == 2

MaxTextLen == 3

MaxDeps == 2

MaxInstalls == 3

MaxLogged == 3

(***************************************************************************)
(* DefinitionPreviewService.js                                             *)
(***************************************************************************)
MAX_PREVIEW_LINES == 10

Min(a, b) == IF a <= b THEN a ELSE b

\* The characters /\s/ matches, among those the model's lines use.
Whitespace == {" ", "\t"}

\* WHITESPACE_REGEX.exec(line)[0].length: the length of the longest prefix
\* of whitespace characters.
RECURSIVE getIndentLevel(_)
getIndentLevel(line) ==
    IF line = <<>> \/ Head(line) \notin Whitespace
    THEN 0
    ELSE 1 + getIndentLevel(Tail(line))

\* nuclide-commons/string countOccurrences: the number of positions of
\* haystack holding char.
RECURSIVE countOccurrences(_, _)
countOccurrences(haystack, char) ==
    IF haystack = <<>>
    THEN 0
    ELSE (IF Head(haystack) = char THEN 1 ELSE 0)
         + countOccurrences(Tail(haystack), char)

\* The lines a file of the model is made of.
LineVocab ==
    { <<"x">>,
      <<" ", " ", " ", " ", "x">>,
      <<"f", "(">>,
      <<")">>,
      <<"\t", "g", "(", ")">> }

\* A file of n lines: filler everywhere but at lines p1 and p2.
FileOf(n, filler, p1, l1, p2, l2) ==
    [k \in 1..n |-> IF k = p1 THEN l1 ELSE IF k = p2 THEN l2 ELSE filler]

\* The results of contents.split('\n') the model reads: never empty, no
\* line holding a newline.
Files ==
    { FileOf(n, filler, p[1], l1, p[2], l2) :
        n \in 1..MaxFileLen, filler \in LineVocab,
        p \in { q \in (1..MaxFileLen) \X (1..MaxFileLen) : q[1] <= q[2] },
        l1 \in LineVocab, l2 \in LineVocab }

\* The loop condition of the for statement.
LoopConditionOffByOne(i_, start_, lines_) ==
    i_ <= start_ + MAX_PREVIEW_LINES /\ i_ < Len(lines_)

LoopCondition(i_, start_, lines_) ==
    i_ < start_ + MAX_PREVIEW_LINES /\ i_ < Len(lines_)

\* The heuristic for the end of a function signature.
EndOfSignatureStrictIndent(indentLevel, initial, open, closed) ==
    indentLevel < initial /\ open = closed

EndOfSignatureIndentOnly(indentLevel, initial, open, closed) ==
    indentLevel <= initial

EndOfSignature(indentLevel, initial, open, closed) ==
    indentLevel <= initial /\ open = closed

NoCall == [op |-> "none"]

Init ==
    /\ call = NoCall
    /\ outcome = NoResult
    /\ stderr = <<>>
    /\ pc = "idle"
    /\ lines = <<>>
    /\ start = 0
    /\ initialIndentLevel = 0
    /\ i = 0
    /\ openParenCount = 0
    /\ closedParenCount = 0
    /\ buffer = <<>>
    /\ result = NoResult
    /\ disposable = 0
    /\ created = 0
    /\ disposed = {}
    /\ windowListener = FALSE
    /\ atomHandlers = {}
    /\ last = NoCall
    /\ logged = <<>>

\* Lines 28-36: the file is read and split, the loop is initialised.
ReadFile ==
    /\ pc = "idle"
    /\ \E file \in Files :
        \E row \in 0..Min(Len(file) - 1, MaxStart) :
            /\ lines' = file
            /\ start' = row
            /\ initialIndentLevel' = getIndentLevel(file[row + 1])
            /\ i' = row
    /\ openParenCount' = 0
    /\ closedParenCount' = 0
    /\ buffer' = <<>>
    /\ pc' = "loop"
    /\ UNCHANGED <<result, definitionVars, reporterVars>>

\* Lines 37-56: one iteration of the loop; on break the function returns
\* dedent(buffer.join('\n')), whose lines before dedent are the buffer's.
LoopBody ==
    /\ pc = "loop"
    /\ LoopCondition(i, start, lines)
    /\ LET line == lines[i + 1]
           indentLevel == getIndentLevel(line)
           open == openParenCount + countOccurrences(line, "(")
           closed == closedParenCount + countOccurrences(line, ")")
       IN /\ openParenCount' = open
          /\ closedParenCount' = closed
          /\ buffer' = Append(buffer, line)
          /\ IF EndOfSignature(indentLevel, initialIndentLevel, open, closed)
             THEN /\ pc' = "done"
                  /\ result' = Append(buffer, line)
                  /\ i' = i
             ELSE /\ pc' = "loop"
                  /\ result' = result
                  /\ i' = i + 1
    /\ UNCHANGED <<lines, start, initialIndentLevel, definitionVars,
                   reporterVars>>

\* Lines 37, 58: the loop condition fails and the function returns.
LoopExit ==
    /\ pc = "loop"
    /\ ~LoopCondition(i, start, lines)
    /\ pc' = "done"
    /\ result' = buffer
    /\ UNCHANGED <<lines, start, initialIndentLevel, i, openParenCount,
                   closedParenCount, buffer, definitionVars, reporterVars>>

PreviewNext == ReadFile \/ LoopBody \/ LoopExit

PreviewSpec == Init /\ [][PreviewNext]_vars

(***************************************************************************)
(* getDefinition.js                                                        *)
(***************************************************************************)
LANGUAGE == "GraphQL"

\* null / undefined, for a node's name and for a name's loc.
Null == [null |-> TRUE]

\* null / undefined, for a FragmentInfo's filePath.
NoPath == "<null>"

Names == {"A", "B"}

\* A graphql Location: the offset of its first character and the offset
\* past its last.
Loc(s, e) == [start |-> s, end |-> e]

Locs(text) ==
    { l \in [start : 0..Len(text), end : 0..Len(text)] : l.start <= l.end }

\* The texts of the model: every string of "a" and newlines up to
\* MaxTextLen characters.
Texts == UNION { [1..n -> {"a", "\n"}] : n \in 0..MaxTextLen }

\* "query A { x }\nquery B { y }" and its definition node for B.
ExampleText ==
    <<"q", "u", "e", "r", "y", " ", "A", " ", "{", " ", "x", " ", "}", "\n",
      "q", "u", "e", "r", "y", " ", "B", " ", "{", " ", "y", " ", "}">>

ExampleNode ==
    [name |-> [value |-> "B", loc |-> Loc(20, 21)], loc |-> Loc(14, 27)]

\* FragmentDefinitionNode | OperationDefinitionNode: name is a Name node or
\* Null, a Name node's loc is a Location or Null. The node's own loc is
\* always a Location (the parser's default).
NameNodes(text) ==
    { [value |-> v, loc |-> l] : v \in Names, l \in {Null} \cup Locs(text) }

DefinitionNodes(text) ==
    { [name |-> nm, loc |-> l] :
        nm \in {Null} \cup NameNodes(text), l \in Locs(text) }

\* utils/Range offsetToPoint: the row is the number of newlines before the
\* offset, the column the distance from the preceding newline (or the start
\* of the text) to the offset.
RECURSIVE offsetToPoint(_, _)
offsetToPoint(text, offset) ==
    IF offset = 0
    THEN [row |-> 0, column |-> 0]
    ELSE LET before == offsetToPoint(text, offset - 1)
         IN IF offset <= Len(text) /\ text[offset] = "\n"
            THEN [row |-> before.row + 1, column |-> 0]
            ELSE [row |-> before.row, column |-> before.column + 1]

\* utils/Range locToRange: both ends of the location, converted.
locToRange(text, loc) ==
    [start |-> offsetToPoint(text, loc.start),
     end |-> offsetToPoint(text, loc.end)]

\* A failed invariant(...): the Error thrown, by its message.
Throw(message) == [threw |-> message]

IsThrown(value) == "threw" \in DOMAIN value

getDefinitionFromNodeStart(path, text, definition) ==
    IF definition.name = Null
    THEN Throw("Name node expected.")
    ELSE IF definition.name.loc = Null
    THEN Throw("Location for Name node expected.")
    ELSE [path |-> path,
          position |-> offsetToPoint(text, definition.loc.start),
          range |-> locToRange(text, definition.loc),
          name |-> definition.name.value,
          language |-> LANGUAGE,
          projectRoot |-> path]

getDefinitionForFragmentDefinition(path, text, definition) ==
    IF definition.name = Null
    THEN Throw("Name node expected.")
    ELSE IF definition.name.loc = Null
    THEN Throw("Location for Name node expected.")
    ELSE [path |-> path,
          position |-> offsetToPoint(text, definition.name.loc.start),
          range |-> locToRange(text, definition.loc),
          name |-> definition.name.value,
          language |-> LANGUAGE,
          projectRoot |-> path]

\* The queryRange of getDefinitionQueryResultForDefinitionNode.
NodeQueryRangeOfNode(text, definition) ==
    <<locToRange(text, definition.loc)>>

NodeQueryRange(text, definition) ==
    <<locToRange(text, definition.name.loc)>>

getDefinitionQueryResultLenient(path, text, definition) ==
    IF definition.name = Null \/ definition.name.loc = Null
    THEN [definitions |-> <<>>, queryRange |-> <<>>]
    ELSE [definitions |->
              <<getDefinitionForFragmentDefinition(path, text, definition)>>,
          queryRange |-> NodeQueryRange(text, definition)]

\* The object literal's properties are evaluated in order: the definition
\* is built, and may throw, before name.loc is converted.
getDefinitionQueryResultForDefinitionNode(path, text, definition) ==
    IF definition.name = Null
    THEN Throw("Name node expected.")
    ELSE LET built == getDefinitionForFragmentDefinition(path, text, definition)
         IN IF IsThrown(built)
            THEN built
            ELSE [definitions |-> <<built>>,
                  queryRange |-> NodeQueryRange(text, definition)]

\* The filter's predicate.
MatchesAnyName(info, name) == info.definition.name.value \in Names

MatchesName(info, name) == info.definition.name.value = name

\* defNodes === []: an array is never identical to a new array literal.
StrictEqualsNewArray(array) == FALSE

\* filePath || ''
OrEmpty(filePath) == IF filePath = NoPath THEN "" ELSE filePath

\* The callback of defNodes.map.
DefinitionOfEntryInText(text, info) ==
    getDefinitionForFragmentDefinition(
        OrEmpty(info.filePath), text, info.definition)

DefinitionOfEntry(text, info) ==
    getDefinitionForFragmentDefinition(
        OrEmpty(info.filePath), info.content, info.definition)

\* definitions.map(_ => locToRange(text, fragment.loc))
SpreadQueryRangeOnce(definitions, text, fragment) ==
    <<locToRange(text, fragment.loc)>>

SpreadQueryRange(definitions, text, fragment) ==
    [k \in 1..Len(definitions) |-> locToRange(text, fragment.loc)]

\* The message written to process.stderr.
NotFoundMessage(name) ==
    <<"Definition not found for GraphQL fragment ", name>>

\* What the call returns or throws, and what it writes to process.stderr.
\* defNodes.map throws what its first throwing callback throws.
getDefinitionQueryResultForFragmentSpread(text, fragment, dependencies) ==
    LET name == fragment.name.value
        defNodes == SelectSeq(dependencies, LAMBDA info : MatchesName(info, name))
    IN IF StrictEqualsNewArray(defNodes)
       THEN [returned |-> [queryRange |-> <<>>, definitions |-> <<>>],
             written |-> <<NotFoundMessage(name)>>]
       ELSE LET definitions ==
                    [k \in 1..Len(defNodes) |-> DefinitionOfEntry(text, defNodes[k])]
                thrown == { k \in 1..Len(defNodes) : IsThrown(definitions[k]) }
            IN [returned |->
                    IF thrown # {}
                    THEN definitions[CHOOSE k \in thrown : \A m \in thrown : k <= m]
                    ELSE [definitions |-> definitions,
                          queryRange |-> SpreadQueryRange(definitions, text, fragment)],
                written |-> <<>>]

\* The arguments of the model's calls.
Paths == {"q.graphql"}

RefTexts == { <<"a", "\n", "a">>, <<"a", "a">> }

SpreadNames == Names \cup {"C"}

\* A FragmentSpreadNode of one character at each offset of the text.
Spreads(text) ==
    { [name |-> [value |-> v], loc |-> Loc(s, s + 1)] :
        v \in SpreadNames, s \in 0..(Len(text) - 1) }

DepTexts == { <<"a">>, <<"\n", "a">> }

\* FragmentInfo: a fragment definition spanning its file, its name the
\* file's last character, with or without a location.
DepInfos ==
    { [filePath |-> p, content |-> c,
       definition |-> [name |-> [value |-> v,
                                 loc |-> IF located
                                         THEN Loc(Len(c) - 1, Len(c))
                                         ELSE Null],
                       loc |-> Loc(0, Len(c))]] :
        p \in {NoPath, "a.graphql"}, c \in DepTexts, v \in Names,
        located \in BOOLEAN }

DepLists == UNION { [1..n -> DepInfos] : n \in 0..MaxDeps }

ResolveFragmentSpread ==
    /\ call = NoCall
    /\ \E text \in RefTexts :
        \E fragment \in Spreads(text), dependencies \in DepLists :
            LET r == getDefinitionQueryResultForFragmentSpread(
                         text, fragment, dependencies)
            IN /\ call' = [op |-> "spread", text |-> text,
                           fragment |-> fragment,
                           dependencies |-> dependencies]
               /\ outcome' = r.returned
               /\ stderr' = stderr \o r.written
    /\ UNCHANGED <<previewVars, reporterVars>>

\* The same spread and dependencies resolved again from another
\* referencing text.
ResolveFragmentSpreadAgain ==
    /\ call.op = "spread"
    /\ \E text \in RefTexts \ {call.text} :
        LET r == getDefinitionQueryResultForFragmentSpread(
                     text, call.fragment, call.dependencies)
        IN /\ call' = [call EXCEPT !.text = text]
           /\ outcome' = r.returned
           /\ stderr' = r.written
    /\ UNCHANGED <<previewVars, reporterVars>>

ResolveDefinitionNode ==
    /\ call = NoCall
    /\ \E path \in Paths :
        \E text \in Texts \cup {ExampleText} :
            \E definition \in IF text = ExampleText
                              THEN {ExampleNode}
                              ELSE DefinitionNodes(text) :
                /\ call' = [op |-> "definitionNode", path |-> path,
                            text |-> text, definition |-> definition]
                /\ outcome' = getDefinitionQueryResultForDefinitionNode(
                                  path, text, definition)
    /\ UNCHANGED <<stderr, previewVars, reporterVars>>

DefinitionNext ==
    ResolveFragmentSpread \/ ResolveFragmentSpreadAgain \/ ResolveDefinitionNode

DefinitionSpec == Init /\ [][DefinitionNext]_vars

(***************************************************************************)
(* installErrorReporter.js                                                 *)
(***************************************************************************)

\* if (disposable != null)
AlreadyInstalledNever(disposable_) == FALSE

AlreadyInstalled(disposable_) == disposable_ # 0

\* Lines 17-30. A call that throws changes nothing; otherwise the window
\* listener is added (addEventListener keeps one registration of a given
\* listener), atom.onWillThrowError subscribes onUnhandledException, and
\* the new CompositeDisposable is stored and returned.
installErrorReporter ==
    /\ IF AlreadyInstalled(disposable)
       THEN /\ last' = [op |-> "install", threw |-> TRUE]
            /\ UNCHANGED <<disposable, created, windowListener, atomHandlers>>
       ELSE /\ created < MaxInstalls
            /\ windowListener' = TRUE
            /\ atomHandlers' = atomHandlers \cup {created + 1}
            /\ disposable' = created + 1
            /\ created' = created + 1
            /\ last' = [op |-> "install", threw |-> FALSE,
                        returned |-> created + 1]
    /\ UNCHANGED <<disposed, logged, previewVars, definitionVars>>

\* dispose() of the n-th returned CompositeDisposable. It acts once: it
\* disposes the onWillThrowError subscription, then runs the Disposable of
\* lines 24-27, which removes the window listener and clears the module's
\* variable. A later dispose() of the same object does nothing.
Dispose(n) ==
    /\ n \in 1..created
    /\ last' = [op |-> "dispose", of |-> n]
    /\ IF n \in disposed
       THEN UNCHANGED <<disposable, disposed, windowListener, atomHandlers>>
       ELSE /\ disposed' = disposed \cup {n}
            /\ atomHandlers' = atomHandlers \ {n}
            /\ windowListener' = FALSE
            /\ disposable' = 0
    /\ UNCHANGED <<created, logged, previewVars, definitionVars>>

\* Lines 32-41: atom is about to throw; every live subscription runs
\* onUnhandledException, which logs unless the logger throws.
onUnhandledException ==
    /\ atomHandlers # {}
    /\ Len(logged) + Cardinality(atomHandlers) <= MaxLogged
    /\ \E went \in BOOLEAN :
        logged' = IF went
                  THEN logged \o [k \in 1..Cardinality(atomHandlers) |->
                                      "Caught unhandled exception"]
                  ELSE logged
    /\ UNCHANGED <<disposable, created, disposed, windowListener,
                   atomHandlers, last, previewVars, definitionVars>>

\* Lines 43-49: an 'unhandledrejection' event reaches the listener, which
\* logs unless the logger throws.
onUnhandledRejection ==
    /\ windowListener
    /\ Len(logged) < MaxLogged
    /\ \E went \in BOOLEAN :
        logged' = IF went
                  THEN Append(logged, "Caught unhandled rejection")
                  ELSE logged
    /\ UNCHANGED <<disposable, created, disposed, windowListener,
                   atomHandlers, last, previewVars, definitionVars>>

ReporterNext ==
    \/ installErrorReporter
    \/ \E n \in 1..MaxInstalls : Dispose(n)
    \/ onUnhandledException
    \/ onUnhandledRejection

ReporterSpec == Init /\ [][ReporterNext]_vars

(***************************************************************************)
(* Properties of getDefinitionPreview.                                     *)
(***************************************************************************)

\* C1: the buffer of scanned lines never holds more than MAX_PREVIEW_LINES
\* lines, nor more lines than remain from the start row to the end of the
\* file, and the snippet returned has at most MAX_PREVIEW_LINES lines.
C1_AtMostTenLines ==
    /\ Len(buffer) <= MAX_PREVIEW_LINES
    /\ pc # "idle" => Len(buffer) <= Len(lines) - start
    /\ pc = "done" =>
        /\ Len(result) <= MAX_PREVIEW_LINES
        /\ Len(result) <= Len(lines) - start

\* The cap is hit with lines of the file left over.
C1_Witness ==
    /\ pc = "done"
    /\ Len(result) = MAX_PREVIEW_LINES
    /\ Len(lines) - start > MAX_PREVIEW_LINES

\* The number of occurrences of char in lines a..b (0-based) of the file.
RECURSIVE OccurrencesIn(_, _, _)
OccurrencesIn(a, b, char) ==
    IF a > b
    THEN 0
    ELSE countOccurrences(lines[a + 1], char) + OccurrencesIn(a + 1, b, char)

\* Line k is back at the indentation of the start line, and the parentheses
\* of lines start..k balance.
ClosesAt(k) ==
    /\ getIndentLevel(lines[k + 1]) <= getIndentLevel(lines[start + 1])
    /\ OccurrencesIn(start, k, "(") = OccurrencesIn(start, k, ")")

LastScanned == Min(start + MAX_PREVIEW_LINES - 1, Len(lines) - 1)

ClosingLines == { k \in start..LastScanned : ClosesAt(k) }

\* The index k of the claim.
LastKept ==
    IF ClosingLines = {}
    THEN LastScanned
    ELSE CHOOSE k \in ClosingLines : \A m \in ClosingLines : k <= m

\* The scenario of C8: a 3-line file, the definition on its second line,
\* which has indentation 4 and no parentheses; the third line has
\* indentation 0.
C8_Scenario ==
    /\ Len(lines) = 3
    /\ start = 1
    /\ getIndentLevel(lines[2]) = 4
    /\ countOccurrences(lines[2], "(") = 0
    /\ countOccurrences(lines[2], ")") = 0
    /\ getIndentLevel(lines[3]) = 0

\* C8 as stated: in the scenario the scan does not stop on line 2 but on
\* line 3, and the snippet holds lines 2 and 3.
C8_AsStated ==
    (pc = "done" /\ C8_Scenario) => result = <<lines[2], lines[3]>>

\* C8, amended: in the scenario the scan stops on line 2, the start line
\* itself, and the snippet holds line 2 alone.
C8_StopsOnStartLine ==
    (pc = "done" /\ C8_Scenario) => (result = <<lines[2]>> /\ i = start)

C8_Witness == pc = "done" /\ C8_Scenario

IsSpread == call.op = "spread"

IsNode == call.op = "definitionNode"

\* The entries of the known-fragments list named like the spread.
MatchIndices ==
    { k \in 1..Len(call.dependencies) :
        call.dependencies[k].definition.name.value = call.fragment.name.value }

\* The n-th of them, in list order.
NthMatch(n) ==
    call.dependencies[
        CHOOSE j \in MatchIndices :
            Cardinality({ m \in MatchIndices : m < j }) = n - 1]

AllMatchesLocated ==
    \A k \in MatchIndices : call.dependencies[k].definition.name.loc # Null

\* The 1-based indices of the newlines before a 0-based offset.
NewlinesBefore(text, offset) ==
    { k \in 1..Min(offset, Len(text)) : text[k] = "\n" }

Largest(S) == CHOOSE k \in S : \A m \in S : m <= k

\* Row and column of an offset, as C4 describes them.
PointAt(text, offset) ==
    [row |-> Cardinality(NewlinesBefore(text, offset)),
     column |-> offset - Largest({0} \cup NewlinesBefore(text, offset))]

RangeAt(text, loc) ==
    [start |-> PointAt(text, loc.start), end |-> PointAt(text, loc.end)]

EmptyResult == [definitions |-> <<>>, queryRange |-> <<>>]

\* C2: a fragment spread whose name matches no entry of the known-fragments
\* list (the empty list included) resolves, without throwing, to
\* definitions = [] and queryRange = [].
C2_NoMatchEmptyResult ==
    (IsSpread /\ MatchIndices = {}) => outcome = EmptyResult

\* The list has entries, none of them named like the spread.
C2_Witness ==
    /\ IsSpread
    /\ MatchIndices = {}
    /\ call.dependencies # <<>>
    /\ outcome = EmptyResult

\* C3: the result has one Definition per list entry named like the spread,
\* in list order, and one queryRange entry per match, each the spread's own
\* range in the referencing text.
C3_OnePerMatch ==
    (IsSpread /\ AllMatchesLocated) =>
        /\ ~IsThrown(outcome)
        /\ Len(outcome.definitions) = Cardinality(MatchIndices)
        /\ Len(outcome.queryRange) = Len(outcome.definitions)
        /\ \A n \in 1..Len(outcome.definitions) :
            /\ outcome.definitions[n].name = call.fragment.name.value
            /\ outcome.definitions[n].path = OrEmpty(NthMatch(n).filePath)
            /\ outcome.definitions[n].range =
                   RangeAt(NthMatch(n).content, NthMatch(n).definition.loc)
        /\ \A n \in 1..Len(outcome.queryRange) :
            outcome.queryRange[n] = RangeAt(call.text, call.fragment.loc)

\* Two matches, from different files with different contents.
C3_Witness ==
    /\ IsSpread
    /\ AllMatchesLocated
    /\ Cardinality(MatchIndices) = 2
    /\ NthMatch(1).filePath # NthMatch(2).filePath
    /\ NthMatch(1).content # NthMatch(2).content
    /\ Len(outcome.queryRange) = 2

\* C4: the Definition built for a node with a name and a name location has
\* position.row = the number of newlines before the name's start offset and
\* position.column = the distance from the preceding newline (or the text
\* start) to it; for "query A { x }\nquery B { y }" and the node for B the
\* position is {row: 1, column: 6}.
C4_PositionOfName ==
    (IsNode /\ call.definition.name # Null
            /\ call.definition.name.loc # Null) =>
        /\ ~IsThrown(outcome)
        /\ outcome.definitions[1].position =
               PointAt(call.text, call.definition.name.loc.start)
        /\ (call.text = ExampleText /\ call.definition = ExampleNode) =>
               outcome.definitions[1].position = [row |-> 1, column |-> 6]

\* The example of the claim has been resolved.
C4_Witness ==
    /\ IsNode
    /\ call.text = ExampleText
    /\ call.definition = ExampleNode
    /\ ~IsThrown(outcome)

\* C5: for a node with a name and a name location the result has exactly
\* one Definition and one queryRange entry; the queryRange entry is the
\* range of the name token, the Definition's range the range of the whole
\* node.
C5_OneDefinitionOneRange ==
    (IsNode /\ call.definition.name # Null
            /\ call.definition.name.loc # Null) =>
        /\ ~IsThrown(outcome)
        /\ Len(outcome.definitions) = 1
        /\ Len(outcome.queryRange) = 1
        /\ outcome.queryRange[1] = RangeAt(call.text, call.definition.name.loc)
        /\ outcome.definitions[1].range = RangeAt(call.text, call.definition.loc)

\* A name token whose range is not the range of the node.
C5_Witness ==
    /\ IsNode
    /\ call.definition.name # Null
    /\ call.definition.name.loc # Null
    /\ ~IsThrown(outcome)
    /\ RangeAt(call.text, call.definition.name.loc)
           # RangeAt(call.text, call.definition.loc)

\* C6: a node whose name is null, or whose name has a null location, makes
\* the operation throw its assertion failure; nothing is returned, for
\* getDefinitionQueryResultForDefinitionNode as for the Definition Builder
\* under getDefinitionQueryResultForFragmentSpread.
C6_FailsFast ==
    /\ (IsNode /\ call.definition.name = Null) =>
           outcome = Throw("Name node expected.")
    /\ (IsNode /\ call.definition.name # Null
               /\ call.definition.name.loc = Null) =>
           outcome = Throw("Location for Name node expected.")
    /\ (IsSpread /\ ~AllMatchesLocated) =>
           outcome = Throw("Location for Name node expected.")

\* A node that has a name, without a location.
C6_Witness ==
    /\ IsNode
    /\ call.definition.name # Null
    /\ call.definition.name.loc = Null
    /\ IsThrown(outcome)

\* C7 as stated: with no entry named like the spread the call writes its
\* 'Definition not found' message to the error stream, and with a match it
\* writes nothing.
C7_AsStated ==
    IsSpread =>
        stderr = (IF MatchIndices = {}
                  THEN <<NotFoundMessage(call.fragment.name.value)>>
                  ELSE <<>>)

\* What the call returned, or what it threw.
DefinitionsOf(value) == IF IsThrown(value) THEN value ELSE value.definitions

\* Each Definition comes from the matched entry's own filePath and content.
C9_FromDeclaringFile ==
    (IsSpread /\ AllMatchesLocated) =>
        \A n \in 1..Len(outcome.definitions) :
            /\ outcome.definitions[n].path = OrEmpty(NthMatch(n).filePath)
            /\ outcome.definitions[n].projectRoot = OrEmpty(NthMatch(n).filePath)
            /\ outcome.definitions[n].position =
                   PointAt(NthMatch(n).content,
                           NthMatch(n).definition.name.loc.start)
            /\ outcome.definitions[n].range =
                   RangeAt(NthMatch(n).content, NthMatch(n).definition.loc)

\* Resolving the same spread against the same dependencies from another
\* referencing text.
C9_TextChanged ==
    /\ IsSpread
    /\ call'.op = "spread"
    /\ call'.fragment = call.fragment
    /\ call'.dependencies = call.dependencies
    /\ call'.text # call.text

\* C9: each returned Definition's path, position and range come from the
\* matched entry's own filePath and content, never from the referencing
\* text; changing the referencing text, the spread and the dependencies
\* kept, leaves the definitions unchanged.
C9_DefinitionsIgnoreReferencingText ==
    /\ []C9_FromDeclaringFile
    /\ [][C9_TextChanged => DefinitionsOf(outcome') = DefinitionsOf(outcome)]_vars

\* The spread was resolved again from a text it does not fit in, and the
\* referencing text would place the matched name elsewhere than the
\* declaring file does.
C9_Witness ==
    /\ IsSpread
    /\ call.fragment.loc.end > Len(call.text)
    /\ AllMatchesLocated
    /\ MatchIndices # {}
    /\ PointAt(call.text, NthMatch(1).definition.name.loc.start)
           # outcome.definitions[1].position

(***************************************************************************)
(* Properties of installErrorReporter.js.                                  *)
(***************************************************************************)

\* The most recently returned disposable has not been disposed yet.
LatestLive == created > 0 /\ created \notin disposed

\* At most one reporter is installed, and the module's variable names it.
C11_AtMostOne ==
    /\ Cardinality(atomHandlers) <= 1
    /\ windowListener <=> disposable # 0
    /\ atomHandlers = (IF disposable # 0 THEN {disposable} ELSE {})
    /\ disposable # 0 => (disposable = created /\ LatestLive)

\* A call of installErrorReporter throws, and installs nothing, exactly
\* when the latest disposable is live; otherwise it installs a reporter.
C11_Install ==
    installErrorReporter =>
        /\ last'.threw <=> LatestLive
        /\ last'.threw =>
               UNCHANGED <<disposable, created, disposed, windowListener,
                           atomHandlers>>
        /\ ~last'.threw =>
               /\ created' = created + 1
               /\ disposable' = created'
               /\ windowListener'
               /\ atomHandlers' = {created'}

\* Disposing the live disposable removes the listener and the handler and
\* lets the next install through; disposing a disposed one changes nothing.
C11_Dispose ==
    \A n \in 1..MaxInstalls :
        Dispose(n) =>
            /\ (n \notin disposed) =>
                   /\ n = created
                   /\ ~windowListener'
                   /\ atomHandlers' = {}
                   /\ ~AlreadyInstalled(disposable')
            /\ (n \in disposed) =>
                   UNCHANGED <<disposable, created, disposed, windowListener,
                               atomHandlers>>

\* C11: across installErrorReporter and dispose calls at most one error
\* reporter is installed at a time; installErrorReporter throws, installing
\* nothing, exactly when the most recently returned disposable has not been
\* disposed; once it is disposed the listener is removed and a new install
\* succeeds; disposing an older, already disposed disposable again does not
\* uninstall a reporter installed later.
C11_SingleReporter ==
    /\ []C11_AtMostOne
    /\ [][C11_Install /\ C11_Dispose]_vars

\* An older disposable was disposed again while a later reporter is
\* installed, and the reporter is still there.
C11_Witness ==
    /\ last.op = "dispose"
    /\ last.of < created
    /\ LatestLive
    /\ disposable = created
    /\ windowListener
    /\ atomHandlers = {created}

====
